---- MODULE Spec2Model ----
(***************************************************************************)
(* A model of the per-step simulation kernel of CRPropa3:                  *)
(*   - PhotoDisintegration   (src/src/module/PhotoDisintegration.cpp)      *)
(*   - ElectronPairProduction (src/src/module/ElectronPairProduction.cpp)  *)
(*   - PropagationBP          (src/src/module/PropagationBP.cpp)           *)
(*                                                                         *)
(* Number representation.  The code computes in IEEE doubles; the model    *)
(* computes in integers.                                                   *)
(*   - Lorentz factors are counted in units of 10^LfUnitExp, energies in   *)
(*     units of 10^LfUnitExp nucleon rest energies, so that               *)
(*     energy = Lorentz factor * mass number.                              *)
(*   - log10 is kept to half a decade: Log10x2(x) is 2*d when x is exactly *)
(*     10^d and 2*d+1 when 10^d < x < 10^(d+1), so every comparison of a   *)
(*     logarithm with a whole number is exact.                             *)
(*   - DBL_MAX, +infinity and NaN are the three sentinels DBL_MAX,         *)
(*     Infinity and NaN; Div, Lt, Sub and Min treat them as IEEE does.     *)
(*   - quotients that are not whole are rounded down.                      *)
(*   - branching ratios, emission probabilities and uniform draws are      *)
(*     counted in tenths; the tolerance of the integrator in hundredths.   *)
(***************************************************************************)
EXTENDS Integers, Sequences, FiniteSets, TLC

VARIABLES
    candidate,  \* the Candidate being processed
    pd,         \* the PhotoDisintegration module
    epp,        \* the ElectronPairProduction module
    bp,         \* the PropagationBP module
    pc,         \* "idle", "test" (a test that calls performInteraction), "PD" (inside
                \* PhotoDisintegration::process), "EPP" (inside
                \* ElectronPairProduction::process), "done" (process has returned or
                \* raised), "crashed", "config" (a caller configuring PropagationBP)
    loc,        \* the locals of the call in progress
    last        \* history: the last call, the candidate at its entry, its outcome

vars == <<candidate, pd, epp, bp, pc, loc, last>>

(***************************************************************************)
(* Bounds of the model                                                     *)
(***************************************************************************)
LfUnitExp == 6
MaxDirectCalls == 2

(***************************************************************************)
(* IEEE sentinels and arithmetic                                           *)
(***************************************************************************)
DBL_MAX == 2000000000
Infinity == DBL_MAX + 1
NaN == DBL_MAX + 2

IsFinite(x) == x < Infinity

\* a / b in doubles, for a >= 0 and b >= 0
Div(a, b) ==
    IF a = NaN \/ b = NaN THEN NaN
    ELSE IF b = 0 THEN (IF a = 0 THEN NaN ELSE Infinity)
    ELSE IF b = Infinity THEN (IF a = Infinity THEN NaN ELSE 0)
    ELSE IF a = Infinity THEN Infinity
    ELSE a \div b

\* a < b in doubles: false when either is NaN
Lt(a, b) == a # NaN /\ b # NaN /\ a < b

\* a > b in doubles
Gt(a, b) == Lt(b, a)

\* a - b in doubles, for finite a
Sub(a, b) ==
    IF a = NaN \/ b = NaN THEN NaN
    ELSE IF b = Infinity THEN -Infinity
    ELSE a - b

\* a + b in doubles, for a >= 0 and b >= 0
Add(a, b) ==
    IF a = NaN \/ b = NaN THEN NaN
    ELSE IF a = Infinity \/ b = Infinity THEN Infinity
    ELSE a + b

\* a * b in doubles, for a >= 0 and b >= 0
Mul(a, b) ==
    IF a = NaN \/ b = NaN THEN NaN
    ELSE IF a = Infinity \/ b = Infinity THEN (IF a = 0 \/ b = 0 THEN NaN ELSE Infinity)
    ELSE a * b

\* std::min(a, b): (b < a) ? b : a
Min(a, b) == IF Lt(b, a) THEN b ELSE a

\* std::max(a, b): (a < b) ? b : a
Max(a, b) == IF Lt(a, b) THEN b ELSE a

RECURSIVE Pow10(_)
Pow10(n) == IF n <= 0 THEN 1 ELSE 10 * Pow10(n - 1)

RECURSIVE Decade(_)
\* the d with 10^d <= x < 10^(d+1), for x >= 1
Decade(x) == IF x < 10 THEN 0 ELSE 1 + Decade(x \div 10)

\* 2*log10(x * 10^LfUnitExp), to half a decade; log10(0) = -inf
Log10x2(x) ==
    IF x = NaN THEN NaN
    ELSE IF x = Infinity THEN Infinity
    ELSE IF x <= 0 THEN -Infinity
    ELSE 2 * (LfUnitExp + Decade(x)) + (IF x = Pow10(Decade(x)) THEN 0 ELSE 1)

(***************************************************************************)
(* Particle ids (ParticleID.h)                                             *)
(***************************************************************************)
digit(value, d) == (value % (d * 10)) \div d

NucleusIdValid(a, z) == ~(z < 0) /\ ~(a < 1) /\ ~(a < z)

nucleusId(a, z) == 1000000000 + z * 10000 + a * 10

isNucleus(id) == id >= 1000000000

massNumber(id) == IF isNucleus(id) THEN (id \div 10) % 1000 ELSE 0

chargeNumber(id) == IF isNucleus(id) THEN (id \div 10000) % 1000 ELSE 0

Electron == 11
Positron == -11
Photon == 22

(***************************************************************************)
(* ParticleState and Candidate                                             *)
(***************************************************************************)
\* ParticleState::getLorentzFactor: energy / (mass c^2)
getLorentzFactor(state) == Div(state.energy, massNumber(state.id))

\* ParticleState::setLorentzFactor: energy = lf * mass c^2
setLorentzFactor(state, lf) == [state EXCEPT !.energy = lf * massNumber(state.id)]

\* Candidate::limitNextStep: nextStep = std::min(nextStep, step)
limitNextStep(c, step) == [c EXCEPT !.nextStep = Min(c.nextStep, step)]

\* Candidate::addSecondary: appends a secondary with the given id, energy and tag
addSecondary(c, id, energy, tag) ==
    [c EXCEPT !.secondaries = Append(@, [id |-> id, energy |-> energy, tag |-> tag])]

RECURSIVE addSecondaries(_, _, _, _, _)
\* n successive addSecondary calls with the same arguments
addSecondaries(c, n, id, energy, tag) ==
    IF n <= 0 THEN c
    ELSE addSecondaries(addSecondary(c, id, energy, tag), n - 1, id, energy, tag)

RECURSIVE SumMass(_)
SumMass(s) == IF s = <<>> THEN 0 ELSE massNumber(Head(s).id) + SumMass(Tail(s))

RECURSIVE SumCharge(_)
SumCharge(s) == IF s = <<>> THEN 0 ELSE chargeNumber(Head(s).id) + SumCharge(Tail(s))

RECURSIVE SumEnergy(_)
SumEnergy(s) == IF s = <<>> THEN 0 ELSE Add(Head(s).energy, SumEnergy(Tail(s)))

\* summed over the primary and its secondaries
TotalMass(c) == massNumber(c.current.id) + SumMass(c.secondaries)
TotalCharge(c) == chargeNumber(c.current.id) + SumCharge(c.secondaries)
TotalEnergy(c) == Add(c.current.energy, SumEnergy(c.secondaries))

(***************************************************************************)
(* Photon fields (external collaborators) and the tabulated data           *)
(***************************************************************************)
\* PhotonField::getRedshiftScaling
getRedshiftScaling(field, z) == 1

\* PhotonField::getRadialScaling: 1 everywhere for a field without spatial
\* extent; the field "BLR" has a finite extent and vanishes beyond R = 1
getRadialScaling(field, R) == IF field = "BLR" /\ R > 1 THEN 0 ELSE 1

\* PhotonField::hasScaleRadius
hasScaleRadius(field) == field = "BLR"

He4 == nucleusId(4, 2)
He3 == nucleusId(3, 2)
H3 == nucleusId(3, 1)
H2 == nucleusId(2, 1)
Proton == nucleusId(1, 1)
Neutron == nucleusId(1, 0)
Fe57 == nucleusId(57, 26)
Ni58 == nucleusId(58, 28)

lgmin == 4
lgmax == 14
nlg == 251

\* the rows of Photodisintegration/rate_<field>.txt: the nuclides with a rate
RateRows(field) == {<<2, 2>>, <<2, 1>>, <<1, 2>>, <<1, 1>>}

\* initRate: pdRate[Z * 31 + N] has nlg entries for a tabulated nuclide, none otherwise
pdRateSize(field, idx) ==
    IF \E r \in RateRows(field) : idx = r[1] * 31 + r[2] THEN nlg ELSE 0

\* pdRate[idx][l], the l-th sample (l = 0 .. nlg-1) of the rate of nuclide idx
pdRateAt(field, idx, l) ==
    IF pdRateSize(field, idx) = 0 THEN 0
    ELSE IF idx = 2 * 31 + 2 THEN (IF l < 125 THEN 0 ELSE IF l < 200 THEN 1 ELSE 2)
    ELSE 1

\* initBranching: pdBranch[idx], the channels of nuclide idx with their
\* branching ratios (in tenths) in the low and in the high half of the grid
pdBranch(field, idx) ==
    IF idx = 2 * 31 + 2 THEN
        << [channel |-> 100000, lo |-> 3, hi |-> 2],
           [channel |-> 10000, lo |-> 7, hi |-> 3],
           [channel |-> 1000, lo |-> 0, hi |-> 5] >>
    ELSE IF idx = 2 * 31 + 1 THEN
        << [channel |-> 10000, lo |-> 4, hi |-> 4],
           [channel |-> 110000, lo |-> 4, hi |-> 4] >>
    ELSE IF idx = 1 * 31 + 2 THEN
        << [channel |-> 100000, lo |-> 5, hi |-> 5],
           [channel |-> 200000, lo |-> 5, hi |-> 5] >>
    ELSE IF idx = 1 * 31 + 1 THEN
        << [channel |-> 100000, lo |-> 10, hi |-> 10] >>
    ELSE << >>

\* branches[i].branchingRatio[l]
branchingRatio(branch, l) == IF l < 125 THEN branch.lo ELSE branch.hi

\* initPhotonEmission: the gamma lines of the transition (Z,N) -> (Zd,Nd), each
\* with its energy (in thousandths of a nucleon rest energy) and its emission
\* probability (in tenths)
LoadedPhotonKeys == {2020102, 2020101}

LoadedPhotonLines(key) ==
    IF key = 2020102 THEN << [energy |-> 5, emissionProbability |-> 10] >>
    ELSE IF key = 2020101 THEN << [energy |-> 2, emissionProbability |-> 0],
                                  [energy |-> 4, emissionProbability |-> 5] >>
    ELSE << >>

\* pdPhoton[key] as the module holds it: the loaded lines, or the empty vector
pdPhotonLines(pdm, key) == LoadedPhotonLines(key)

\* the keys of the map pdPhoton
pdPhotonKeys(pdm) == LoadedPhotonKeys \cup pdm.insertedKeys

\* interpolateEquidistant(lg, lgmin, lgmax, pdRate[idx]) with lg = lg2 / 2
interpolateEquidistantRate(field, idx, lg2) ==
    LET num == (lg2 - 2 * lgmin) * (nlg - 1)
        den == 2 * (lgmax - lgmin)
        i == num \div den
        r == num % den
    IN IF i >= nlg - 1 THEN pdRateAt(field, idx, nlg - 1)
    ELSE pdRateAt(field, idx, i)
         + (r * (pdRateAt(field, idx, i + 1) - pdRateAt(field, idx, i))) \div den

\* round((lg - lgmin) / (lgmax - lgmin) * (nlg - 1)): index of closest tabulation point
closestIndex(lg2) ==
    LET num == (lg2 - 2 * lgmin) * (nlg - 1)
        den == 2 * (lgmax - lgmin)
    IN IF lg2 = NaN \/ lg2 = Infinity \/ lg2 = -Infinity
       THEN -Infinity  \* the conversion of a non-finite double: no index of the table
       ELSE (2 * num + den) \div (2 * den)

(***************************************************************************)
(* PhotoDisintegration                                                     *)
(***************************************************************************)
\* the index Z * 31 + N of the candidate's nuclide
pdIndex(id) == chargeNumber(id) * 31 + (massNumber(id) - chargeNumber(id))

\* log10(candidate->current.getLorentzFactor() * (1 + z)), times 2
pdLg2(c) == Log10x2(Mul(getLorentzFactor(c.current), 1 + c.redshift))

\* the checks with "lg > lgmax" in place of "lg >= lgmax"
pdApplicable_OpenUpperEnd(c, pdm) ==
    LET id == c.current.id
        Z == chargeNumber(id)
        N == massNumber(id) - Z
    IN /\ isNucleus(id)
       /\ ~((Z > 26) \/ (N > 30))
       /\ pdRateSize(pdm.photonField, chargeNumber(id) * 31 + N) # 0
       /\ ~((pdLg2(c) <= 2 * lgmin) \/ (pdLg2(c) > 2 * lgmax))

\* PhotoDisintegration::process, the checks at the head of the loop body:
\* TRUE when none of the four early returns is taken
pdApplicable(c, pdm) ==
    LET id == c.current.id
        Z == chargeNumber(id)
        N == massNumber(id) - Z
    IN /\ isNucleus(id)
       /\ ~((Z > 26) \/ (N > 30))
       /\ pdRateSize(pdm.photonField, pdIndex(id)) # 0
       /\ ~((pdLg2(c) <= 2 * lgmin) \/ (pdLg2(c) >= 2 * lgmax))

\* the interaction rate after the cosmological and the radial scaling
pdScaledRate(c, pdm) ==
    interpolateEquidistantRate(pdm.photonField, pdIndex(c.current.id), pdLg2(c))
        * ((1 + c.redshift) * (1 + c.redshift))
        * getRedshiftScaling(pdm.photonField, c.redshift)
        * getRadialScaling(pdm.photonField, c.R)

RECURSIVE selectChannel_NonNegative(_, _, _, _)
\* the loop with "cmp >= 0" in place of "cmp > 0"
selectChannel_NonNegative(branches, l, cmp, i) ==
    IF (i < Len(branches)) /\ (cmp >= 0)
    THEN selectChannel_NonNegative(branches, l, cmp - branchingRatio(branches[i + 1], l),
                                   i + 1)
    ELSE i

RECURSIVE selectChannel(_, _, _, _)
\* the loop "while ((i < branches.size()) and (cmp > 0))": the value of i after it
selectChannel(branches, l, cmp, i) ==
    IF (i < Len(branches)) /\ (cmp > 0)
    THEN selectChannel(branches, l, cmp - branchingRatio(branches[i + 1], l), i + 1)
    ELSE i

\* the key of the transition (Z, A-Z) -> (Z+dZ, A+dA-Z-dZ) in pdPhoton
photonKey(A, Z, dA, dZ) ==
    Z * 1000000 + (A - Z) * 10000 + (Z + dZ) * 100 + (A + dA) - (Z + dZ)

\* the draw of a line that is not emitted
Skip == 0 - 1

RECURSIVE emitPhotons(_, _, _, _, _, _)
\* the loop over the gamma lines of one transition: draws[i] is Skip when
\* random.rand() > emissionProbability, otherwise the value of 1 - cosTheta
emitPhotons(c, lines, draws, lf, tag, i) ==
    IF i > Len(lines) THEN c
    ELSE IF draws[i] = Skip THEN emitPhotons(c, lines, draws, lf, tag, i + 1)
    ELSE emitPhotons(
            addSecondary(c, Photon, Div(Mul(lines[i].energy * draws[i], lf), 1000), tag),
            lines, draws, lf, tag, i + 1)

\* the fragments of a channel with the protons added before the neutrons
addFragments_ProtonsFirst(c, channel, EpA, tag) ==
    LET c1 == addSecondaries(c, digit(channel, 10000), nucleusId(1, 1), EpA, tag)
        c2 == addSecondaries(c1, digit(channel, 100000), nucleusId(1, 0), EpA, tag)
        c3 == addSecondaries(c2, digit(channel, 1000), nucleusId(2, 1), Mul(EpA, 2), tag)
        c4 == addSecondaries(c3, digit(channel, 100), nucleusId(3, 1), Mul(EpA, 3), tag)
        c5 == addSecondaries(c4, digit(channel, 10), nucleusId(3, 2), Mul(EpA, 3), tag)
    IN addSecondaries(c5, digit(channel, 1), nucleusId(4, 2), Mul(EpA, 4), tag)

\* the fragments of a channel, added in the order n, p, H2, H3, He3, He4
addFragments(c, channel, EpA, tag) ==
    LET c1 == addSecondaries(c, digit(channel, 100000), nucleusId(1, 0), EpA, tag)
        c2 == addSecondaries(c1, digit(channel, 10000), nucleusId(1, 1), EpA, tag)
        c3 == addSecondaries(c2, digit(channel, 1000), nucleusId(2, 1), Mul(EpA, 2), tag)
        c4 == addSecondaries(c3, digit(channel, 100), nucleusId(3, 1), Mul(EpA, 3), tag)
        c5 == addSecondaries(c4, digit(channel, 10), nucleusId(3, 2), Mul(EpA, 3), tag)
    IN addSecondaries(c5, digit(channel, 1), nucleusId(4, 2), Mul(EpA, 4), tag)

\* "update particle" with the charge lost to the fragments left in the residual
updateParticle_KeepsCharge(c, A, Z, dA, dZ, EpA) ==
    LET snap == [c EXCEPT !.created = c.current]
    IN IF ~NucleusIdValid(A + dA, Z + dZ) THEN snap
       ELSE [snap EXCEPT !.current.id = nucleusId(A + dA, Z),
                         !.current.energy = Mul(EpA, A + dA)]

\* "update particle" with the snapshot taken after the residual is set
updateParticle_LateSnapshot(c, A, Z, dA, dZ, EpA) ==
    IF ~NucleusIdValid(A + dA, Z + dZ) THEN [c EXCEPT !.created = c.current]
    ELSE LET upd == [c EXCEPT !.current.id = nucleusId(A + dA, Z + dZ),
                              !.current.energy = Mul(EpA, A + dA)]
         IN [upd EXCEPT !.created = upd.current]

\* "update particle": the snapshot into created, then the residual nuclide
\* with its energy; setId is not reached when nucleusId raises
updateParticle(c, A, Z, dA, dZ, EpA) ==
    LET snap == [c EXCEPT !.created = c.current]
    IN IF ~NucleusIdValid(A + dA, Z + dZ) THEN snap
       ELSE [snap EXCEPT !.current.id = nucleusId(A + dA, Z + dZ),
                         !.current.energy = Mul(EpA, A + dA)]

\* "create photons": the lines of the transition, each emitted or skipped
createPhotons(c, pdm, A, Z, dA, dZ, draws) ==
    emitPhotons(c, pdPhotonLines(pdm, photonKey(A, Z, dA, dZ)), draws,
                getLorentzFactor(c.current), pdm.interactionTag, 1)

\* performInteraction with the secondaries of a failed call taken back
performInteraction_RollsBack(c, pdm, channel, draws) ==
    LET dA == -digit(channel, 100000) - digit(channel, 10000) - 2 * digit(channel, 1000)
                - 3 * digit(channel, 100) - 3 * digit(channel, 10) - 4 * digit(channel, 1)
        dZ == -digit(channel, 10000) - digit(channel, 1000) - digit(channel, 100)
                - 2 * digit(channel, 10) - 2 * digit(channel, 1)
        id == c.current.id
        A == massNumber(id)
        Z == chargeNumber(id)
        EpA == Div(c.current.energy, A)
        frag == addFragments(c, channel, EpA, pdm.interactionTag)
        upd == updateParticle(frag, A, Z, dA, dZ, EpA)
        key == photonKey(A, Z, dA, dZ)
    IN IF ~NucleusIdValid(A + dA, Z + dZ)
       THEN [c |-> c, pdm |-> pdm, raised |-> TRUE]
       ELSE IF ~pdm.havePhotons
       THEN [c |-> upd, pdm |-> pdm, raised |-> FALSE]
       ELSE [c |-> createPhotons(upd, pdm, A, Z, dA, dZ, draws),
             pdm |-> IF key \in pdPhotonKeys(pdm) THEN pdm
                     ELSE [pdm EXCEPT !.insertedKeys = @ \cup {key}],
             raised |-> FALSE]

\* PhotoDisintegration::performInteraction: the candidate and the module
\* after the call, and whether the call raised
performInteraction(c, pdm, channel, draws) ==
    LET dA == -digit(channel, 100000) - digit(channel, 10000) - 2 * digit(channel, 1000)
                - 3 * digit(channel, 100) - 3 * digit(channel, 10) - 4 * digit(channel, 1)
        dZ == -digit(channel, 10000) - digit(channel, 1000) - digit(channel, 100)
                - 2 * digit(channel, 10) - 2 * digit(channel, 1)
        id == c.current.id
        A == massNumber(id)
        Z == chargeNumber(id)
        EpA == Div(c.current.energy, A)
        frag == addFragments(c, channel, EpA, pdm.interactionTag)
        upd == updateParticle(frag, A, Z, dA, dZ, EpA)
        key == photonKey(A, Z, dA, dZ)
    IN IF ~NucleusIdValid(A + dA, Z + dZ)
       THEN [c |-> upd, pdm |-> pdm, raised |-> TRUE]
       ELSE IF ~pdm.havePhotons
       THEN [c |-> upd, pdm |-> pdm, raised |-> FALSE]
       ELSE [c |-> createPhotons(upd, pdm, A, Z, dA, dZ, draws),
             pdm |-> IF key \in pdPhotonKeys(pdm) THEN pdm
                     ELSE [pdm EXCEPT !.insertedKeys = @ \cup {key}],
             raised |-> FALSE]

(***************************************************************************)
(* The inputs of the model                                                 *)
(***************************************************************************)
LorentzFactors == {0, 5, 10, 40, 1000, 100000000}
\* the species and Lorentz factors of the candidates
Species ==
    ({He4} \X LorentzFactors) \cup ({H2} \X {5, 1000}) \cup ({Proton} \X {5, 40})
        \cup {<<Neutron, 40>>, <<Fe57, 5>>, <<Ni58, 5>>, <<Electron, 40>>}
Redshifts == {0, 1}
Steps == {0, 20}
NextSteps == {3, DBL_MAX}
PdFields == {"CMB", "BLR"}
Limits == {0, 5}
\* -log(random.rand()) for rand() = 1, a value inside (0,1), and rand() = 0
NegLogDraws == {0, 8, Infinity}
\* random.rand(), in tenths
UniformDraws == {0, 3, 5, 10}
\* 1 - cosTheta for cosTheta = 1, 0, -1, or Skip
PhotonDraws == {Skip, 0, 1, 2}
\* the channel codes given to performInteraction when it is called directly
Channels == {0, 1, 10000, 100000, 110000}
\* what a read outside a vector may yield as a channel code
GarbageChannels == {1, 100000}

\* the history of a candidate no module has been called on yet
NoCall(c) ==
    [op |-> "none", pre |-> c, outcome |-> "none", fired |-> 0,
     preInt |-> c.current, preIntTotals |-> <<0, 0, 0>>, limited |-> FALSE,
     tag |-> "none", sel |-> [u |-> 0, l |-> 0, idx |-> 0, i |-> 0, drawn |-> FALSE],
     preIntSecondaries |-> << >>, channel |-> 0,
     d |-> 0, remaining |-> 0, freeSum |-> 0,
     budget |-> 0, over |-> 0, spectrum |-> "none"]

NoLocals == [step |-> 0, dE |-> 0, dE0 |-> 0, losslen |-> 0]

InitCandidate(id, lf, z, cs, ns, R) ==
    [current |-> [id |-> id, energy |-> lf * (IF isNucleus(id) THEN massNumber(id) ELSE 1)],
     created |-> [id |-> id, energy |-> lf * (IF isNucleus(id) THEN massNumber(id) ELSE 1)],
     secondaries |-> << >>,
     redshift |-> z,
     currentStep |-> cs,
     nextStep |-> ns,
     R |-> R]

\* the candidates a driver hands to process(), all at R = 1
Candidates ==
    { InitCandidate(p[1], p[2], z, cs, ns, 1) :
        p \in Species, z \in Redshifts, cs \in Steps, ns \in NextSteps }

\* candidates beyond the extent of the field "BLR"
FarCandidates ==
    { InitCandidate(He4, 1000, z, cs, ns, 2) :
        z \in Redshifts, cs \in Steps, ns \in NextSteps }

\* the species and Lorentz factors of the candidates of ElectronPairProduction
EppSpecies ==
    ({He4} \X {0, 5000, 10000, 40000, 1000000})
        \cup ({Proton} \X {10000, 40000, 100000})
        \cup {<<H2, 40000>>, <<Neutron, 40000>>, <<Electron, 40000>>}

\* the current steps of the candidates of ElectronPairProduction
EppSteps == {0, 1, 20}

EppCandidates ==
    { InitCandidate(p[1], p[2], z, cs, ns, 1) :
        p \in EppSpecies, z \in Redshifts, cs \in EppSteps, ns \in NextSteps }

\* the distances from the centre of a photon field with a scale radius
EppRadii == {1, 2}

\* the candidates handed to ElectronPairProduction in a field with a scale
\* radius, at two distances from its centre
EppRadialCandidates ==
    { InitCandidate(id, 40000, 0, cs, ns, R) :
        id \in {He4, Proton}, cs \in EppSteps, ns \in NextSteps, R \in EppRadii }

\* the candidates of a test that calls performInteraction itself
TestCandidates ==
    { InitCandidate(p[1], p[2], z, 0, 3, 1) : p \in Species, z \in Redshifts }

\* PhotoDisintegration::PhotoDisintegration(field, havePhotons, limit)
PhotoDisintegrationCtor(f, havePhotons, limit) ==
    [exists |-> TRUE, photonField |-> f, havePhotons |-> havePhotons, limit |-> limit,
     interactionTag |-> "PD", insertedKeys |-> {}, tagArg |-> "unset"]

\* setInteractionTag without the assignment
setInteractionTag_Ignored(m, tag) == m

\* PhotoDisintegration::setInteractionTag, ElectronPairProduction::setInteractionTag
setInteractionTag(m, tag) == [m EXCEPT !.interactionTag = tag]

\* PhotoDisintegration::getInteractionTag, ElectronPairProduction::getInteractionTag
getInteractionTag(m) == m.interactionTag

\* the tags a caller passes to setInteractionTag
Tags == {"myTag", "EPP"}

(***************************************************************************)
(* PhotoDisintegration's operations                                        *)
(***************************************************************************)
\* the draws of the photon loop that random.rand() can produce: a line of
\* emission probability 1 is never skipped (rand() <= 1)
PhotonDrawsOf(lines, l) ==
    { d \in [1 .. Len(lines) -> PhotonDraws] :
        \A i \in 1 .. Len(lines) :
            (d[i] = Skip) =>
                (l \notin 0 .. nlg - 1 \/ lines[i].emissionProbability < 10) }

\* the lines and the Lorentz-factor index performInteraction would read for
\* this candidate and channel
pdLinesOf(c, pdm, channel) ==
    LET r == performInteraction(c, [pdm EXCEPT !.havePhotons = FALSE], channel, << >>)
        key == photonKey(massNumber(c.current.id), chargeNumber(c.current.id),
                         massNumber(r.c.current.id) - massNumber(c.current.id),
                         chargeNumber(r.c.current.id) - chargeNumber(c.current.id))
    IN [lines |-> IF r.raised \/ ~pdm.havePhotons THEN << >> ELSE pdPhotonLines(pdm, key),
        l |-> IF r.raised THEN 0 ELSE closestIndex(pdLg2(r.c))]

\* one call of performInteraction inside an action: the draws are chosen, the
\* read of emissionProbability[l] outside the table may end the program
Interact(c, pdm, channel, step, continue, lst) ==
    LET look == pdLinesOf(c, pdm, channel)
        pre == [id |-> c.current.id, energy |-> c.current.energy]
        totals == <<TotalMass(c), TotalCharge(c), TotalEnergy(c)>>
    IN \/ \E draws \in PhotonDrawsOf(look.lines, look.l) :
            LET r == performInteraction(c, pdm, channel, draws)
            IN /\ candidate' = r.c
               /\ pd' = r.pdm
               /\ pc' = IF r.raised THEN "done"
                        ELSE IF lst.op = "performInteraction" THEN "test"
                        ELSE IF continue THEN "PD" ELSE "done"
               /\ loc' = IF r.raised \/ ~continue THEN NoLocals ELSE [NoLocals EXCEPT !.step = step]
               /\ last' = [lst EXCEPT !.outcome = IF r.raised THEN "raised"
                                                   ELSE IF continue THEN "running"
                                                   ELSE "returned",
                                       !.fired = IF r.raised THEN @ ELSE @ + 1,
                                       !.preInt = pre,
                                       !.preIntTotals = totals,
                                       !.preIntSecondaries = c.secondaries,
                                       !.channel = channel]
       \/ /\ look.lines # << >>
          /\ look.l \notin 0 .. nlg - 1
          /\ pc' = "crashed"
          /\ last' = [lst EXCEPT !.outcome = "crashed"]
          /\ UNCHANGED <<candidate, pd, loc>>

\* a direct call of the public method performInteraction(candidate, channel)
PerformInteractionCall ==
    /\ pc = "test"
    /\ last.fired < MaxDirectCalls
    /\ \E channel \in Channels :
        Interact(candidate, pd, channel, 0, FALSE,
                 [last EXCEPT !.op = "performInteraction", !.pre = candidate,
                              !.tag = getInteractionTag(pd)])
    /\ UNCHANGED <<epp, bp>>

\* the branch "step < randDist" without its call of limitNextStep
pdLimitStep_Missing(c, pdm, rate) == c

\* a caller sets the interaction tag of PhotoDisintegration, between calls
PDSetInteractionTag ==
    /\ pc \in {"idle", "test"}
    /\ pd.exists
    /\ \E tag \in Tags :
         /\ tag # pd.tagArg
         /\ pd' = [setInteractionTag(pd, tag) EXCEPT !.tagArg = tag]
    /\ UNCHANGED <<candidate, epp, bp, pc, loc, last>>

\* the next step set to limit / rate whatever it was
pdLimitStep_Overwrites(c, pdm, rate) == [c EXCEPT !.nextStep = Div(pdm.limit, rate)]

\* "candidate->limitNextStep(limit / rate)" when no interaction occurs in the step
pdLimitStep(c, pdm, rate) == limitNextStep(c, Div(pdm.limit, rate))

\* PhotoDisintegration::process, entry: step = candidate->getCurrentStep()
PDProcessBegin ==
    /\ pc = "idle"
    /\ pd.exists
    /\ pc' = "PD"
    /\ loc' = [NoLocals EXCEPT !.step = candidate.currentStep]
    /\ last' = [last EXCEPT !.op = "PD.process", !.pre = candidate, !.outcome = "running",
                            !.fired = 0, !.limited = FALSE,
                            !.tag = getInteractionTag(pd),
                            !.d = 0, !.remaining = candidate.currentStep,
                            !.freeSum = 0]
    /\ UNCHANGED <<candidate, pd, epp, bp>>

\* PhotoDisintegration::process, one pass through the body of the do-while loop
PDLoop ==
    /\ pc = "PD"
    /\ UNCHANGED <<epp, bp>>
    /\ IF ~pdApplicable(candidate, pd)
       THEN /\ pc' = "done"
            /\ loc' = NoLocals
            /\ last' = [last EXCEPT !.outcome = "returned"]
            /\ UNCHANGED <<candidate, pd>>
       ELSE \E L \in NegLogDraws :
            LET rate == pdScaledRate(candidate, pd)
                randDist == Div(L, rate)
            IN IF Lt(loc.step, randDist)
               THEN /\ candidate' = pdLimitStep(candidate, pd, rate)
                    /\ pc' = "done"
                    /\ loc' = NoLocals
                    /\ last' = [last EXCEPT !.outcome = "returned", !.limited = TRUE]
                    /\ UNCHANGED pd
               ELSE \E cmp \in UniformDraws :
                    LET branches == pdBranch(pd.photonField, pdIndex(candidate.current.id))
                        l == closestIndex(pdLg2(candidate))
                        i == selectChannel(branches, l, cmp, 0)
                        rest == Sub(loc.step, randDist)
                        lst == [last EXCEPT !.sel = [u |-> cmp, l |-> l, i |-> i,
                                                     idx |-> pdIndex(candidate.current.id),
                                                     drawn |-> TRUE],
                                            !.d = randDist,
                                            !.remaining = loc.step,
                                            !.freeSum = Add(@, randDist)]
                    IN IF i = 0
                       THEN \* branches[i-1] is read outside the vector
                            \/ /\ pc' = "crashed"
                               /\ last' = [lst EXCEPT !.outcome = "crashed"]
                               /\ UNCHANGED <<candidate, pd, loc>>
                            \/ \E channel \in GarbageChannels :
                                 Interact(candidate, pd, channel, rest, Gt(rest, 0), lst)
                       ELSE Interact(candidate, pd, branches[i].channel, rest,
                                     Gt(rest, 0), lst)

(***************************************************************************)
(* ElectronPairProduction                                                  *)
(* Loss rates are counted in millionths per unit of length.                *)
(***************************************************************************)
\* initRate: the two columns of ElectronPairProduction/lossrate_<field>.txt
tabLorentzFactor(field) == <<10000, 100000>>
tabLossRate(field) == <<2000, 20000>>

\* interpolate(x, X, Y): linear interpolation, for X[1] <= x < X[Len(X)]
interpolate(x, X, Y) ==
    LET i == CHOOSE k \in 1 .. Len(X) - 1 : X[k] <= x /\ x < X[k + 1]
    IN Y[i] + ((x - X[i]) * (Y[i + 1] - Y[i])) \div (X[i + 1] - X[i])

\* pow(lf / back, -0.6), in thousandths, to a decade of lf / back
powMinus06(lf, back) ==
    LET d == Decade(lf \div back)
    IN IF d = 0 THEN 1000 ELSE IF d = 1 THEN 251 ELSE IF d = 2 THEN 63
       ELSE IF d = 3 THEN 16 ELSE IF d = 4 THEN 4 ELSE 1

\* ElectronPairProduction::lossLength(id, lf, z)
lossLength(eppm, id, lf0, z) ==
    LET Z == chargeNumber(id)
        lf == lf0 * (1 + z)
        X == tabLorentzFactor(eppm.photonField)
        Y == tabLossRate(eppm.photonField)
        tab == IF lf < X[Len(X)]
               THEN interpolate(lf, X, Y)
               ELSE (Y[Len(Y)] * powMinus06(lf, X[Len(X)])) \div 1000
        A == massNumber(id)
        rate == (tab * Z * Z * ((1 + z) * (1 + z) * (1 + z))
                    * getRedshiftScaling(eppm.photonField, z)) \div A
    IN IF Z = 0 THEN DBL_MAX
       ELSE IF lf < X[1] THEN DBL_MAX
       ELSE Div(1000000, rate)

\* the radial scale factor process() divides the loss length by: the factor
\* computed for a field with a scale radius is stored in a second variable
\* pos_scale declared inside the if block, so the outer one keeps its value 1
posScale(eppm, c) == 1

\* the loss length process() works with
eppLossLength(eppm, c) ==
    LET l0 == lossLength(eppm, c.current.id, getLorentzFactor(c.current), c.redshift)
    IN IF l0 >= DBL_MAX THEN l0 ELSE l0 \div posScale(eppm, c)

\* step size in local frame: c->getCurrentStep() / (1 + z)
eppLocalStep(c) == c.currentStep \div (1 + c.redshift)

\* lf * (1 + loss): the sign of the loss reversed
eppNewLorentzFactor_Gain(lf, step, losslen) == (lf * (losslen + step)) \div losslen

\* lf * (1 - loss), with loss = step / losslen
eppNewLorentzFactor(lf, step, losslen) == (lf * (losslen - step)) \div losslen

\* the two last statements of process() without the step limit
eppFinish_NoLimit(eppm, c, losslen) ==
    LET lf == getLorentzFactor(c.current)
    IN [c EXCEPT !.current =
            setLorentzFactor(@, eppNewLorentzFactor(lf, eppLocalStep(c), losslen))]

\* the two last statements of process() with the energy of the emitted pairs
\* taken from the primary as well
eppFinish_PairsSubtracted(eppm, c, losslen) ==
    LET lf == getLorentzFactor(c.current)
        pairs == SumEnergy(c.secondaries) \div massNumber(c.current.id)
        lost == [c EXCEPT !.current =
                    setLorentzFactor(@, eppNewLorentzFactor(lf, eppLocalStep(c), losslen)
                                            - pairs)]
    IN limitNextStep(lost, Mul(eppm.limit, losslen))

\* the two last statements of process(): the energy loss and the step limit
eppFinish(eppm, c, losslen) ==
    LET lf == getLorentzFactor(c.current)
        lost == [c EXCEPT !.current =
                    setLorentzFactor(@, eppNewLorentzFactor(lf, eppLocalStep(c), losslen))]
    IN limitNextStep(lost, Mul(eppm.limit, losslen))

\* TRUE when process() takes none of its early returns
eppApplicable(eppm, c) ==
    /\ isNucleus(c.current.id)
    /\ ~(eppLossLength(eppm, c) >= DBL_MAX)

\* "spectrum_" + fname.substr(0,3): the spectrum file of a photon field
spectrumFile(f) == IF f \in {"IRB_Kneiske04", "IRB_Stecker05"} THEN "IRB" ELSE f

\* ElectronPairProduction::ElectronPairProduction(field, haveElectrons, limit)
ElectronPairProductionCtor(f, haveElectrons, limit) ==
    [exists |-> TRUE, photonField |-> f, haveElectrons |-> haveElectrons,
     limit |-> limit, interactionTag |-> "EPP", rateField |-> f,
     spectrumField |-> IF haveElectrons THEN spectrumFile(f) ELSE "none",
     tagArg |-> "unset"]

\* ElectronPairProduction::setPhotonField: initRate, and initSpectrum if
\* electrons are to be produced
eppSetPhotonField(m, f) ==
    [m EXCEPT !.photonField = f,
              !.rateField = f,
              !.spectrumField = IF m.haveElectrons THEN spectrumFile(f) ELSE @]

\* setHaveElectrons that only stores the flag
eppSetHaveElectrons_NoReload(m, haveElectrons) ==
    [m EXCEPT !.haveElectrons = haveElectrons]

\* ElectronPairProduction::setHaveElectrons: initSpectrum when switched on
eppSetHaveElectrons(m, haveElectrons) ==
    [m EXCEPT !.haveElectrons = haveElectrons,
              !.spectrumField = IF haveElectrons THEN spectrumFile(m.photonField) ELSE @]

\* the photon fields a caller hands to setPhotonField
EppFields == {"CMB", "IRB_Kneiske04", "IRB_Stecker05"}

\* a caller changes the photon field of ElectronPairProduction, between calls
EPPSetPhotonField ==
    /\ pc = "idle"
    /\ epp.exists
    /\ \E f \in EppFields : epp' = eppSetPhotonField(epp, f)
    /\ UNCHANGED <<candidate, pd, bp, pc, loc, last>>

\* a caller switches the secondaries of ElectronPairProduction on or off
EPPSetHaveElectrons ==
    /\ pc = "idle"
    /\ epp.exists
    /\ \E b \in BOOLEAN : epp' = eppSetHaveElectrons(epp, b)
    /\ UNCHANGED <<candidate, pd, bp, pc, loc, last>>

\* a caller sets the interaction tag of ElectronPairProduction, between calls
EPPSetInteractionTag ==
    /\ pc = "idle"
    /\ epp.exists
    /\ \E tag \in Tags :
         /\ tag # epp.tagArg
         /\ epp' = [setInteractionTag(epp, tag) EXCEPT !.tagArg = tag]
    /\ UNCHANGED <<candidate, pd, bp, pc, loc, last>>

\* the energies Ee of a drawn electron: a quarter of the energy loss of the
\* call, or all of it
ElectronDraws(dE0) == {e \in {dE0 \div 4, dE0} : e > 0}

\* random.randomInterpolatedPosition(previous, current): the start or the end
\* of the step
PairPositions == {0, 1}

\* Candidate::addSecondary with the position the secondary is created at
addSecondaryAt(c, id, energy, pos, tag) ==
    [c EXCEPT !.secondaries =
        Append(@, [id |-> id, energy |-> energy, tag |-> tag, pos |-> pos])]

\* a pair whose positron is created at the other end of the step
addPair_SplitPosition(c, Ee, pos, tag) ==
    addSecondaryAt(addSecondaryAt(c, Electron, Ee, pos, tag), Positron, Ee, 1 - pos, tag)

\* "c->addSecondary( 11, Ee, pos, ...); c->addSecondary(-11, Ee, pos, ...)"
addPair(c, Ee, pos, tag) ==
    addSecondaryAt(addSecondaryAt(c, Electron, Ee, pos, tag), Positron, Ee, pos, tag)

\* the budget left untouched by a created pair
eppRemaining_Kept(dE, Epair) == dE

\* "dE -= Epair"
eppRemaining(dE, Epair) == dE - Epair

\* ElectronPairProduction::process up to the loop that draws the pairs
EPPProcessBegin ==
    /\ pc = "idle"
    /\ epp.exists
    /\ UNCHANGED <<pd, epp, bp>>
    /\ LET lst == [last EXCEPT !.op = "EPP.process", !.pre = candidate,
                                !.tag = getInteractionTag(epp)]
           losslen == eppLossLength(epp, candidate)
           dE == (candidate.current.energy * eppLocalStep(candidate)) \div losslen
       IN IF ~eppApplicable(epp, candidate)
          THEN /\ pc' = "done"
               /\ last' = [lst EXCEPT !.outcome = "returned"]
               /\ UNCHANGED <<candidate, loc>>
          ELSE IF epp.haveElectrons
          THEN /\ pc' = "EPP"
               /\ loc' = [step |-> 0, dE |-> dE, dE0 |-> dE, losslen |-> losslen]
               /\ last' = [lst EXCEPT !.outcome = "running", !.budget = dE]
               /\ UNCHANGED candidate
          ELSE /\ pc' = "done"
               /\ candidate' = eppFinish(epp, candidate, losslen)
               /\ last' = [lst EXCEPT !.outcome = "returned"]
               /\ UNCHANGED loc

\* one test of "while (dE > 0)" and, when it holds, one pass through the loop
EPPDrawPair ==
    /\ pc = "EPP"
    /\ UNCHANGED <<pd, epp, bp>>
    /\ \/ /\ ~(loc.dE > 0)
          /\ candidate' = eppFinish(epp, candidate, loc.losslen)
          /\ pc' = "done"
          /\ loc' = NoLocals
          /\ last' = [last EXCEPT !.outcome = "returned"]
       \/ /\ loc.dE > 0
          /\ \E Ee \in ElectronDraws(loc.dE0) :
               LET Epair == 2 * Ee
               IN \/ \* not accepted: random.rand() > dE / Epair
                     /\ Epair > loc.dE
                     /\ candidate' = eppFinish(epp, candidate, loc.losslen)
                     /\ pc' = "done"
                     /\ loc' = NoLocals
                     /\ last' = [last EXCEPT !.outcome = "returned",
                                             !.spectrum = epp.spectrumField]
                  \/ \* create pair and repeat with remaining energy
                     /\ \E pos \in PairPositions :
                          candidate' = addPair(candidate, Ee, pos, epp.interactionTag)
                     /\ loc' = [loc EXCEPT !.dE = eppRemaining(@, Epair)]
                     /\ last' = [last EXCEPT !.fired = @ + 1,
                                             !.over = IF Epair > loc.dE THEN @ + 1 ELSE @,
                                             !.spectrum = epp.spectrumField]
                     /\ pc' = "EPP"

(***************************************************************************)
(* Specification of the interaction modules                                *)
(***************************************************************************)
\* a simulation hands one candidate to PhotoDisintegration::process, or a test
\* calls performInteraction on one
InitPD ==
    /\ \/ /\ pc = "idle"
          /\ \E hp \in BOOLEAN, lim \in Limits :
               \/ /\ pd = PhotoDisintegrationCtor("CMB", hp, lim)
                  /\ candidate \in Candidates
               \/ /\ pd = PhotoDisintegrationCtor("BLR", hp, lim)
                  /\ candidate \in FarCandidates
       \/ /\ pc = "test"
          /\ \E hp \in BOOLEAN : pd = PhotoDisintegrationCtor("CMB", hp, 5)
          /\ candidate \in TestCandidates
    /\ epp = [exists |-> FALSE]
    /\ bp = [exists |-> FALSE]
    /\ last = NoCall(candidate)
    /\ loc = NoLocals

\* a simulation hands one candidate to ElectronPairProduction::process
InitEPP ==
    /\ pc = "idle"
    /\ \E he \in BOOLEAN, lim \in Limits :
          \/ /\ epp = ElectronPairProductionCtor("CMB", he, lim)
             /\ candidate \in EppCandidates
          \/ /\ epp = ElectronPairProductionCtor("BLR", he, lim)
             /\ candidate \in EppRadialCandidates
    /\ pd = [exists |-> FALSE]
    /\ bp = [exists |-> FALSE]
    /\ last = NoCall(candidate)
    /\ loc = NoLocals

NextPD ==
    \/ PDSetInteractionTag
    \/ PerformInteractionCall
    \/ PDProcessBegin
    \/ PDLoop

SpecPD == InitPD /\ [][NextPD]_vars

NextEPP ==
    \/ EPPSetInteractionTag
    \/ EPPSetPhotonField
    \/ EPPSetHaveElectrons
    \/ EPPProcessBegin
    \/ EPPDrawPair

SpecEPP == InitEPP /\ [][NextEPP]_vars

\* either interaction module, on one candidate
Init == InitPD \/ InitEPP

Next == NextPD \/ NextEPP

Spec == Init /\ [][Next]_vars

(***************************************************************************)
(* PropagationBP: construction and configuration                           *)
(* The tolerance is counted in hundredths, the steps in units of length.   *)
(***************************************************************************)
\* no PropagationBP has been constructed
NoBP == [exists |-> FALSE]

\* the result of a setter or constructor that returns normally
Returned(b) == [b |-> b, raised |-> FALSE]

\* the result of one that throws std::runtime_error: the object as it was
Raised(b) == [b |-> b, raised |-> TRUE]

\* PropagationBP::setTolerance
setTolerance(b, tol) ==
    IF Gt(tol, 100) \/ Lt(tol, 0) THEN Raised(b)
    ELSE Returned([b EXCEPT !.tolerance = tol])

\* PropagationBP::setMinimumStep
setMinimumStep(b, min) ==
    IF Lt(min, 0) THEN Raised(b)
    ELSE IF Gt(min, b.maxStep) THEN Raised(b)
    ELSE Returned([b EXCEPT !.minStep = min])

\* PropagationBP::setMaximumStep
setMaximumStep(b, max) ==
    IF Lt(max, b.minStep) THEN Raised(b)
    ELSE Returned([b EXCEPT !.maxStep = max])

\* the member initialiser "minStep(0)" of both constructors; tolerance and
\* maxStep are written by the setters before anything reads them
bpInitialised == [exists |-> TRUE, tolerance |-> 0, minStep |-> 0, maxStep |-> 0]

\* the three checked setters in the order the constructors call them; an
\* exception leaves no object
bpConfigure(tolerance, minStep, maxStep) ==
    LET r1 == setTolerance(bpInitialised, tolerance)
        r2 == setMaximumStep(r1.b, maxStep)
        r3 == setMinimumStep(r2.b, minStep)
    IN IF r1.raised \/ r2.raised \/ r3.raised THEN Raised(NoBP) ELSE Returned(r3.b)

\* PropagationBP::PropagationBP(field, advField, fixedStep, shockRadius)
PropagationBPFixed(fixedStep) == bpConfigure(42, fixedStep, fixedStep)

\* PropagationBP::PropagationBP(field, advField, tolerance, minStep, maxStep, shockRadius)
PropagationBPAdaptive(tolerance, minStep, maxStep) == bpConfigure(tolerance, minStep, maxStep)

\* the tolerances and the steps a caller passes: negative, zero, inside and
\* above the admitted range, infinite, and not a number
ToleranceArgs == {0 - 1, 0, 42, 100, 101, NaN}
StepArgs == {0 - 1, 0, 1, 10, Infinity, NaN}

\* the history of a configuration call
BPCall(op, args, r) == [op |-> op, args |-> args, raised |-> r.raised, pre |-> bp]

\* a caller constructs a PropagationBP with a fixed step
BPConstructFixed ==
    /\ pc = "config"
    /\ ~bp.exists
    /\ \E fixedStep \in StepArgs :
         LET r == PropagationBPFixed(fixedStep)
         IN /\ bp' = r.b
            /\ last' = BPCall("PropagationBP(fixedStep)", <<fixedStep>>, r)
    /\ UNCHANGED <<candidate, pd, epp, pc, loc>>

\* a caller constructs a PropagationBP with an adaptive step
BPConstructAdaptive ==
    /\ pc = "config"
    /\ ~bp.exists
    /\ \E tol \in ToleranceArgs, min \in StepArgs, max \in StepArgs :
         LET r == PropagationBPAdaptive(tol, min, max)
         IN /\ bp' = r.b
            /\ last' = BPCall("PropagationBP(tolerance,minStep,maxStep)", <<tol, min, max>>, r)
    /\ UNCHANGED <<candidate, pd, epp, pc, loc>>

\* a caller calls setTolerance
BPSetTolerance ==
    /\ pc = "config"
    /\ bp.exists
    /\ \E tol \in ToleranceArgs :
         LET r == setTolerance(bp, tol)
         IN /\ bp' = r.b
            /\ last' = BPCall("setTolerance", <<tol>>, r)
    /\ UNCHANGED <<candidate, pd, epp, pc, loc>>

\* a caller calls setMinimumStep
BPSetMinimumStep ==
    /\ pc = "config"
    /\ bp.exists
    /\ \E min \in StepArgs :
         LET r == setMinimumStep(bp, min)
         IN /\ bp' = r.b
            /\ last' = BPCall("setMinimumStep", <<min>>, r)
    /\ UNCHANGED <<candidate, pd, epp, pc, loc>>

\* a caller calls setMaximumStep
BPSetMaximumStep ==
    /\ pc = "config"
    /\ bp.exists
    /\ \E max \in StepArgs :
         LET r == setMaximumStep(bp, max)
         IN /\ bp' = r.b
            /\ last' = BPCall("setMaximumStep", <<max>>, r)
    /\ UNCHANGED <<candidate, pd, epp, pc, loc>>

InitBP ==
    /\ pc = "config"
    /\ bp = NoBP
    /\ pd = [exists |-> FALSE]
    /\ epp = [exists |-> FALSE]
    /\ candidate = InitCandidate(Proton, 40, 0, 0, DBL_MAX, 1)
    /\ last = [op |-> "none", args |-> << >>, raised |-> FALSE, pre |-> NoBP]
    /\ loc = NoLocals

NextBP ==
    \/ BPConstructFixed
    \/ BPConstructAdaptive
    \/ BPSetTolerance
    \/ BPSetMinimumStep
    \/ BPSetMaximumStep

SpecBP == InitBP /\ [][NextBP]_vars

(***************************************************************************)
(* PropagationBP::process                                                  *)
(* Positions are pairs of whole lengths, directions the four unit vectors  *)
(* of the plane.  The magnetic field and the advection field are external: *)
(* what an evaluation of the magnetic field does to the direction (no      *)
(* turn, or a quarter turn) and the error estimate of a trial step are     *)
(* chosen freely.  Error ratios are counted in tenths.                     *)
(***************************************************************************)
\* ParticleState::getCharge, in units of the elementary charge
getCharge(state) ==
    IF isNucleus(state.id) THEN chargeNumber(state.id)
    ELSE IF state.id = Electron THEN 0 - 1
    ELSE IF state.id = Positron THEN 1
    ELSE 0

\* clip(x, lower, upper): std::max(lower, std::min(x, upper))
clip(x, lower, upper) == Max(lower, Min(x, upper))

\* setField and setAdvField: the two fields of the module, each set or null
bpWithFields(b, field, advField) ==
    [exists |-> b.exists, tolerance |-> b.tolerance, minStep |-> b.minStep,
     maxStep |-> b.maxStep, field |-> field, advField |-> advField]

\* the direction after an evaluation of the magnetic field: the Boris push
\* turns it by a quarter (|t| = 1) or leaves it (B = 0)
borisPush(dir, turn) == IF turn = 1 THEN <<0 - dir[2], dir[1]>> ELSE dir

\* a + b * h for the vectors a, b and the length h: not a number in every
\* component when h is not a number
axpy(a, b, h) ==
    IF h = NaN THEN <<NaN, NaN>> ELSE <<a[1] + b[1] * h, a[2] + b[2] * h>>

\* PropagationBP::dY: two half leap-frog steps in the position around the push
dY(pos, dir, step, turn) ==
    LET half == step \div 2
        mid == axpy(pos, dir, half)
        dirNew == borisPush(dir, turn)
    IN IF step = NaN
       THEN [x |-> <<NaN, NaN>>, u |-> <<NaN, NaN>>]
       ELSE [x |-> axpy(mid, dirNew, half), u |-> dirNew]

\* 0.95 * pow(r, -0.2), in thousandths, for an error ratio r in tenths
stepFactor(r) ==
    IF r = NaN THEN NaN
    ELSE IF r = Infinity THEN 0
    ELSE IF r <= 0 THEN Infinity
    ELSE IF r <= 2 THEN 1311
    ELSE IF r <= 4 THEN 1141
    ELSE IF r <= 5 THEN 1091
    ELSE IF r <= 8 THEN 993
    ELSE IF r <= 10 THEN 950
    ELSE IF r <= 20 THEN 827
    ELSE IF r <= 420 THEN 450
    ELSE IF r <= 1000 THEN 378
    ELSE 95

\* n / d rounded to the nearest representable value, ties to even, as the
\* arithmetic of doubles rounds a product
RoundDiv(n, d) ==
    LET q == n \div d
        rem == n % d
    IN IF 2 * rem > d \/ (2 * rem = d /\ q % 2 = 1) THEN q + 1 ELSE q

\* step * 0.95 * pow(r, -0.2)
scaledStep(step, r) ==
    LET f == stepFactor(r)
    IN IF f = NaN \/ step = NaN THEN NaN
       ELSE IF f = Infinity THEN (IF step = 0 THEN NaN ELSE Infinity)
       ELSE IF step = Infinity THEN (IF f = 0 THEN NaN ELSE Infinity)
       ELSE RoundDiv(step * f, 1000)

\* the next trial step without "newStep = std::max(newStep, minStep)"
shrunkStep_NoMinimum(b, step, r) == Max(scaledStep(step, r), RoundDiv(step, 10))

\* the next trial step after an error ratio above 1
shrunkStep(b, step, r) == Max(Max(scaledStep(step, r), RoundDiv(step, 10)), b.minStep)

\* the next suggested step without "newStep = std::min(newStep, 5 * step)"
grownStep_NoFiveFold(b, step, r) == Min(scaledStep(step, r), b.maxStep)

\* the next suggested step after an error ratio not above 1
grownStep(b, step, r) ==
    Min(Min(scaledStep(step, r), Mul(5, step)), b.maxStep)

\* a == b on doubles
Eq(a, b) == a # NaN /\ b # NaN /\ a = b

\* the test "minStep == maxStep" never taken: every call goes through tryStep
bpFixedMode_Never(b) == FALSE

\* "if (minStep == maxStep)": no error estimation is needed
bpFixedMode(b) == Eq(b.minStep, b.maxStep)

\* getFieldAtPosition: the magnetic field is evaluated when it is set
fieldEvaluations(b) == IF b.field THEN 1 ELSE 0

\* getAdvFieldAtPosition reads advField when field is set
advEvaluations(b) == IF b.field THEN 1 ELSE 0

\* getAdvFieldAtPosition calls advField->getField through a null pointer
advDereferencesNull(b) == b.field /\ ~b.advField

\* the turns the magnetic field can give in one evaluation
Turns(b) == IF b.field THEN {0, 1} ELSE {0}

\* the end of process() with the previous state saved after the move
bpAccept_SavesPrevious(c, yOut, step, newStep) ==
    [c EXCEPT !.current.position = yOut.x,
              !.current.direction = yOut.u,
              !.previous = [c.current EXCEPT !.position = yOut.x, !.direction = yOut.u],
              !.currentStep = step,
              !.nextStep = newStep]

\* the last four statements of process()
bpAccept(c, yOut, step, newStep) ==
    [c EXCEPT !.current.position = yOut.x,
              !.current.direction = yOut.u,
              !.currentStep = step,
              !.nextStep = newStep]

\* rectilinear propagation for neutral particles
bpNeutralStep(b, c) ==
    LET step == clip(c.nextStep, b.minStep, b.maxStep)
    IN [c EXCEPT !.current.position = axpy(c.current.position, c.current.direction, step),
                 !.currentStep = step,
                 !.nextStep = b.maxStep]

\* a process() that leaves the previous state alone
savePrevious_Skipped(c) == c

\* "candidate->previous = current"
savePrevious(c) == [c EXCEPT !.previous = c.current]

\* the error estimates of tryStep, in hundredths like the tolerance
ErrorEstimates == {0, 21, 42, 84, 4200, NaN}

\* errorEstimation(x1, x2, step): diff.getR() / (step * 0.75) is 0 / 0 for a
\* step of 0, which moves nothing, and not a number for a step that is not
\* a number
ErrorEstimatesAt(step) == IF step = 0 \/ step = NaN THEN {NaN} ELSE ErrorEstimates

\* the largest number of passes through the retry loop that the history of a
\* call counts; beyond it the history keeps only whether the number of
\* passes is odd
MaxTries == 4

\* yErr.u.getR() / tolerance, in tenths
errorRatio(b, err) ==
    IF err = NaN \/ b.tolerance = NaN THEN NaN ELSE Div(err * 10, b.tolerance)

\* the candidates handed to PropagationBP::process
BPInitCandidate(id, energy, ns) ==
    [current |-> [id |-> id, energy |-> energy, position |-> <<0, 0>>, direction |-> <<1, 0>>],
     previous |-> [id |-> id, energy |-> energy + 1, position |-> <<0 - 7, 0>>,
                   direction |-> <<0, 1>>],
     created |-> [id |-> id, energy |-> energy + 2, position |-> <<0 - 9, 0>>,
                  direction |-> <<0, 1>>],
     secondaries |-> << [id |-> Photon, energy |-> 1, tag |-> "PD"] >>,
     redshift |-> 1,
     currentStep |-> 3,
     nextStep |-> ns,
     R |-> 1]

BPNextSteps == {0, 5, 60, 1000, DBL_MAX, NaN}

BPCandidates ==
    { BPInitCandidate(id, 40, ns) : id \in {Proton, He4, Neutron, Photon, Electron},
                                    ns \in BPNextSteps }

\* the modules handed to the simulation: fixed step and adaptive step
BPModules ==
    { bpWithFields(r.b, f, a) :
        r \in { x \in {PropagationBPFixed(10), PropagationBPFixed(0), PropagationBPFixed(NaN)}
                      \cup { PropagationBPAdaptive(t, mn, mx) :
                                t \in {0, 42, 100}, mn \in {0, 10}, mx \in {10, 100, 1000} }
                      \cup { PropagationBPAdaptive(42, NaN, 10) } :
                ~x.raised },
        f \in BOOLEAN, a \in BOOLEAN }

\* the history of a process() call of PropagationBP
BPProcessCall(c) ==
    [op |-> "BP.process", pre |-> c, outcome |-> "running", dYs |-> 0, evals |-> 0,
     advEvals |-> 0, tries |-> 0, r |-> 0, retried |-> FALSE, pass |-> 0]

\* PropagationBP::process up to the retry loop: the neutral particle and the
\* fixed step are finished here
BPProcessBegin ==
    /\ pc = "idle"
    /\ bp.exists
    /\ UNCHANGED <<pd, epp, bp>>
    /\ LET c == savePrevious(candidate)
           h == BPProcessCall(candidate)
       IN IF getCharge(c.current) = 0
          THEN /\ candidate' = bpNeutralStep(bp, c)
               /\ pc' = "done"
               /\ last' = [h EXCEPT !.outcome = "returned"]
               /\ UNCHANGED loc
          ELSE IF bpFixedMode(bp)
          THEN \/ /\ advDereferencesNull(bp)
                  /\ candidate' = c
                  /\ pc' = "crashed"
                  /\ last' = [h EXCEPT !.outcome = "crashed"]
                  /\ UNCHANGED loc
               \/ \E turn \in Turns(bp) :
                    /\ candidate' = bpAccept(c, dY(c.current.position, c.current.direction,
                                                   bp.maxStep, turn),
                                             bp.maxStep, bp.maxStep)
                    /\ pc' = "done"
                    /\ last' = [h EXCEPT !.outcome = "returned",
                                         !.dYs = 1,
                                         !.evals = fieldEvaluations(bp),
                                         !.advEvals = advEvaluations(bp)]
                    /\ UNCHANGED loc
          ELSE /\ candidate' = c
               /\ pc' = "BP"
               /\ loc' = [step |-> clip(c.nextStep, bp.minStep, bp.maxStep)]
               /\ last' = h

\* one pass through "while (true)": tryStep and the decision on its error
BPTryStep ==
    /\ pc = "BP"
    /\ UNCHANGED <<pd, epp, bp>>
    /\ \/ /\ advDereferencesNull(bp)
          /\ pc' = "crashed"
          /\ last' = [last EXCEPT !.outcome = "crashed"]
          /\ UNCHANGED <<candidate, loc>>
       \/ \E turn \in Turns(bp), err \in ErrorEstimatesAt(loc.step) :
            LET step == loc.step
                r == errorRatio(bp, err)
                yOut == dY(candidate.current.position, candidate.current.direction,
                           step, turn)
                tries == IF last.tries < MaxTries THEN last.tries + 1 ELSE last.tries
                h == [last EXCEPT !.dYs = 3 * tries,
                                  !.evals = 3 * tries * fieldEvaluations(bp),
                                  !.advEvals = 3 * tries * advEvaluations(bp),
                                  !.tries = tries,
                                  !.pass = 1 - @,
                                  !.r = r]
            IN IF Gt(r, 10)
               THEN IF Eq(step, bp.minStep)
                    THEN /\ candidate' = bpAccept(candidate, yOut, step, step)
                         /\ pc' = "done"
                         /\ last' = [h EXCEPT !.outcome = "returned"]
                         /\ UNCHANGED loc
                    ELSE /\ loc' = [step |-> shrunkStep(bp, step, r)]
                         /\ pc' = "BP"
                         /\ last' = [h EXCEPT !.retried = TRUE]
                         /\ UNCHANGED candidate
               ELSE /\ candidate' = bpAccept(candidate, yOut, step,
                                             IF ~Eq(step, bp.maxStep)
                                             THEN grownStep(bp, step, r) ELSE step)
                    /\ pc' = "done"
                    /\ last' = [h EXCEPT !.outcome = "returned"]
                    /\ UNCHANGED loc

\* a simulation hands one candidate to PropagationBP::process
InitBPProcess ==
    /\ pc = "idle"
    /\ bp \in BPModules
    /\ candidate \in BPCandidates
    /\ pd = [exists |-> FALSE]
    /\ epp = [exists |-> FALSE]
    /\ last = [op |-> "none", pre |-> candidate, outcome |-> "none", dYs |-> 0,
               evals |-> 0, advEvals |-> 0, tries |-> 0, r |-> 0, retried |-> FALSE,
               pass |-> 0]
    /\ loc = [step |-> 0]

NextBPProcess ==
    \/ BPProcessBegin
    \/ BPTryStep

SpecBPProcess == InitBPProcess /\ [][NextBPProcess]_vars

\* the same, with a call that has been made running on: process() is
\* sequential code, each pass of its loop is followed by the next statement
SpecBPProcessLive == SpecBPProcess /\ WF_vars(NextBPProcess)

(***************************************************************************)
(* Properties of PhotoDisintegration                                       *)
(***************************************************************************)
\* some performInteraction has returned normally, and none has raised or
\* ended the program since
InteractionReturned == last.fired > 0 /\ last.outcome \in {"running", "returned"}

\* PhotoDisintegration::process has returned normally
PDReturned == pc = "done" /\ last.op = "PD.process" /\ last.outcome = "returned"

\* C1: after every performInteraction that returns normally the mass number
\* and the charge number, each summed over the primary and all secondaries,
\* are what they were before that call; and they are what they were at the
\* entry of process(), however many interactions have fired in it
C1_MassAndChargeConserved ==
    InteractionReturned =>
        /\ TotalMass(candidate) = last.preIntTotals[1]
        /\ TotalCharge(candidate) = last.preIntTotals[2]
        /\ TotalMass(candidate) = TotalMass(last.pre)
        /\ TotalCharge(candidate) = TotalCharge(last.pre)

\* a process() call with photon emission on in which two interactions fired
\* and a photon was attached
C1_Witness ==
    /\ PDReturned
    /\ last.fired >= 2
    /\ pd.havePhotons
    /\ \E i \in 1 .. Len(candidate.secondaries) : candidate.secondaries[i].id = Photon

\* C2 (as claimed): after every performInteraction that returns normally the
\* energy of the primary plus the energies of all secondaries is what it was
\* before that call, with photon emission on or off
C2_EnergyConserved ==
    InteractionReturned => TotalEnergy(candidate) = last.preIntTotals[3]

\* C4 (as claimed): a candidate that passes the guard at entry with a positive
\* rate and nextStep preset to the largest double leaves process() with a
\* finite, strictly smaller nextStep, whether or not interactions fired
C4_NextStepAlwaysLimited ==
    (/\ PDReturned
     /\ pdApplicable(last.pre, pd)
     /\ pdScaledRate(last.pre, pd) > 0
     /\ last.pre.nextStep = DBL_MAX)
        => (IsFinite(candidate.nextStep) /\ candidate.nextStep < DBL_MAX)

\* C4 (amended): the same, for the calls in which no interaction fires; the
\* step is then limited to limit / rate
C4_NextStepLimitedWhenNoInteraction ==
    (/\ PDReturned
     /\ pdApplicable(last.pre, pd)
     /\ pdScaledRate(last.pre, pd) > 0
     /\ last.pre.nextStep = DBL_MAX
     /\ last.fired = 0)
        => /\ IsFinite(candidate.nextStep) /\ candidate.nextStep < DBL_MAX
           /\ candidate.nextStep = Div(pd.limit, pdScaledRate(last.pre, pd))

\* a call on an applicable candidate with the preset nextStep and a current
\* step of zero that fired nothing
C4_Witness ==
    /\ PDReturned
    /\ pdApplicable(last.pre, pd)
    /\ pdScaledRate(last.pre, pd) > 0
    /\ last.pre.nextStep = DBL_MAX
    /\ last.pre.currentStep = 0
    /\ last.fired = 0
    /\ candidate.nextStep < DBL_MAX

\* C5: after every performInteraction that returns normally, created is the
\* primary's id and energy immediately before that interaction
C5_CreatedIsPreInteractionState ==
    InteractionReturned => candidate.created = last.preInt

\* two interactions in one process() call: created is the state before the
\* second one, not the state at the start of the step
C5_Witness ==
    /\ PDReturned
    /\ last.fired >= 2
    /\ candidate.created = last.preInt
    /\ candidate.created # last.pre.current

(***************************************************************************)
(* Properties of both interaction modules                                  *)
(***************************************************************************)
\* the guard of PhotoDisintegration as stated: the candidate is not a nucleus,
\* or Z > 26, or N > 30, or no rate is tabulated for (Z,N), or
\* log10(lf * (1 + z)) is not strictly between 4 and 14
PDGuardFails(c, pdm) ==
    LET id == c.current.id
        Z == chargeNumber(id)
        N == massNumber(id) - Z
    IN \/ ~isNucleus(id)
       \/ Z > 26
       \/ N > 30
       \/ <<Z, N>> \notin RateRows(pdm.photonField)
       \/ ~(Lt(2 * lgmin, pdLg2(c)) /\ Lt(pdLg2(c), 2 * lgmax))

\* the guard of ElectronPairProduction as stated: the candidate is not a
\* nucleus, or its charge is zero, or lf * (1 + z) is below the first
\* tabulated Lorentz factor
EPPGuardFails(c, eppm) ==
    \/ ~isNucleus(c.current.id)
    \/ chargeNumber(c.current.id) = 0
    \/ getLorentzFactor(c.current) * (1 + c.redshift) < tabLorentzFactor(eppm.photonField)[1]

\* C3: when the candidate fails the guard at the entry of process(), of either
\* module, the candidate is at every point of the call and after it what it
\* was at entry (id, energy, nextStep, created, secondaries), and the call
\* returns
C3_GuardFailureIsNoOp ==
    /\ (last.op = "PD.process" /\ PDGuardFails(last.pre, pd))
          => (candidate = last.pre /\ pc \in {"PD", "done"}
              /\ (pc = "done" => last.outcome = "returned"))
    /\ (last.op = "EPP.process" /\ EPPGuardFails(last.pre, epp))
          => (candidate = last.pre /\ pc = "done" /\ last.outcome = "returned")

\* PhotoDisintegration::process has returned on a tabulated nucleus whose
\* log10(lf * (1 + z)) is exactly 14, with the candidate as it was
C3_Witness ==
    /\ PDReturned
    /\ isNucleus(last.pre.current.id)
    /\ pdRateSize(pd.photonField, pdIndex(last.pre.current.id)) # 0
    /\ pdLg2(last.pre) = 2 * lgmax
    /\ candidate = last.pre

(***************************************************************************)
(* Properties of ElectronPairProduction                                    *)
(***************************************************************************)
\* ElectronPairProduction::process has returned
EPPReturned == pc = "done" /\ last.op = "EPP.process" /\ last.outcome = "returned"

\* C6: after process() on a candidate whose loss length is finite, nextStep is
\* at most limit * lossLength and at most what it was, with secondaries
\* enabled or not, produced or not; when the loss length is infinite nextStep
\* is what it was
C6_NextStepLimitedByLossLength ==
    EPPReturned =>
        IF eppLossLength(epp, last.pre) < DBL_MAX /\ isNucleus(last.pre.current.id)
        THEN /\ candidate.nextStep <= epp.limit * eppLossLength(epp, last.pre)
             /\ candidate.nextStep <= last.pre.nextStep
        ELSE candidate.nextStep = last.pre.nextStep

\* a call that emitted pairs and lowered nextStep from the largest double
C6_Witness ==
    /\ EPPReturned
    /\ epp.haveElectrons
    /\ Len(candidate.secondaries) >= 2
    /\ last.pre.nextStep = DBL_MAX
    /\ candidate.nextStep < DBL_MAX

\* C7: the energy of the candidate is, during and after process(), at most
\* the energy at entry
C7_EnergyNeverIncreases ==
    last.op = "EPP.process" => candidate.current.energy <= last.pre.current.energy

\* a call at redshift 1 with a positive step after which the energy is smaller
C7_Witness ==
    /\ EPPReturned
    /\ last.pre.redshift = 1
    /\ last.pre.currentStep > 0
    /\ candidate.current.energy < last.pre.current.energy

\* C8: for an applicable nucleus the Lorentz factor after process() is
\* lf * (1 - s/L) with s = currentStep / (1 + z) and L the loss length, whatever
\* secondaries were emitted; for a proton at z = 0 with a step of one unit at
\* a tabulated Lorentz factor the energy lost is the tabulated loss rate (in
\* millionths per unit of length) times the step
C8_LorentzFactorScaledByLoss ==
    (EPPReturned /\ eppApplicable(epp, last.pre)) =>
        LET lf == getLorentzFactor(last.pre.current)
            z == last.pre.redshift
            s == last.pre.currentStep \div (1 + z)
            L == eppLossLength(epp, last.pre)
            X == tabLorentzFactor(epp.photonField)
            Y == tabLossRate(epp.photonField)
        IN /\ getLorentzFactor(candidate.current) = (lf * (L - s)) \div L
           /\ \A i \in 1 .. Len(X) :
                (last.pre.current.id = Proton /\ z = 0 /\ s = 1 /\ lf = X[i]) =>
                    (last.pre.current.energy - candidate.current.energy) * 1000000
                        = last.pre.current.energy * Y[i] * s

\* a call on a proton at z = 0, at a tabulated Lorentz factor, with a step of
\* one unit, in which at least two pairs were emitted and energy was lost
C8_Witness ==
    /\ EPPReturned
    /\ last.pre.current.id = Proton
    /\ last.pre.redshift = 0
    /\ last.pre.currentStep = 1
    /\ getLorentzFactor(last.pre.current) = tabLorentzFactor(epp.photonField)[1]
    /\ Len(candidate.secondaries) >= 4
    /\ candidate.current.energy < last.pre.current.energy

(***************************************************************************)
(* Properties of PropagationBP                                             *)
(***************************************************************************)
\* a tolerance inside (0, 1]
ToleranceValid(tol) == tol # NaN /\ 0 < tol /\ tol <= 100

\* C9 (as claimed): setTolerance raises for every value outside (0,1] and
\* stores every value inside; setMinimumStep(min) raises when min > maxStep,
\* setMaximumStep(max) raises when max < minStep, and both constructors raise
\* under the same conditions
C9_InvalidConfigurationRejected ==
    /\ last.op = "setTolerance" =>
          /\ last.raised <=> ~ToleranceValid(last.args[1])
          /\ ~last.raised => bp.tolerance = last.args[1]
    /\ last.op = "setMinimumStep" =>
          (Gt(last.args[1], last.pre.maxStep) => last.raised)
    /\ last.op = "setMaximumStep" =>
          (Lt(last.args[1], last.pre.minStep) => last.raised)
    /\ last.op = "PropagationBP(tolerance,minStep,maxStep)" =>
          ((~ToleranceValid(last.args[1]) \/ Gt(last.args[2], last.args[3]))
              => last.raised)

\* C10 (as claimed): once constructed, and after any setMinimumStep and
\* setMaximumStep calls, 0 <= minStep <= maxStep; a call that raises leaves
\* minStep and maxStep as they were
C10_StepBoundsOrdered ==
    /\ bp.exists =>
          /\ bp.minStep # NaN /\ bp.maxStep # NaN
          /\ 0 <= bp.minStep
          /\ bp.minStep <= bp.maxStep
    /\ (last.op \in {"setMinimumStep", "setMaximumStep"} /\ last.raised) =>
          (bp.minStep = last.pre.minStep /\ bp.maxStep = last.pre.maxStep)

(***************************************************************************)
(* Properties of PropagationBP::process                                    *)
(***************************************************************************)
\* PropagationBP::process has returned
BPReturned == pc = "done" /\ last.op = "BP.process" /\ last.outcome = "returned"

\* C11 (as claimed): with minStep == maxStep every process() call evaluates the
\* magnetic field exactly once, for every candidate, with no error estimation
\* and no retry
C11_OneEvaluationForEveryCandidate ==
    (BPReturned /\ Eq(bp.minStep, bp.maxStep)) =>
        (last.dYs = 1 /\ last.tries = 0 /\ ~last.retried)

\* C11 (amended): with minStep == maxStep a process() call estimates no error
\* and retries nothing; a call that returns has made one evaluation dY (which
\* samples the magnetic field once when one is set) for a charged candidate
\* and none for a neutral one
C11_OneEvaluationForChargedCandidate ==
    (last.op = "BP.process" /\ Eq(bp.minStep, bp.maxStep)) =>
        /\ last.tries = 0 /\ ~last.retried /\ pc # "BP"
        /\ pc = "done" =>
              /\ last.dYs = (IF getCharge(last.pre.current) = 0 THEN 0 ELSE 1)
              /\ last.evals = (IF getCharge(last.pre.current) # 0 /\ bp.field THEN 1 ELSE 0)
        /\ pc = "crashed" => (last.dYs = 0 /\ last.evals = 0)

\* a call in fixed-step mode on a charged candidate that sampled the field once
C11_Witness ==
    /\ BPReturned
    /\ Eq(bp.minStep, bp.maxStep)
    /\ bp.maxStep > 0
    /\ getCharge(last.pre.current) # 0
    /\ last.evals = 1

\* adaptive mode: minStep < maxStep
BPAdaptive == Lt(bp.minStep, bp.maxStep)

\* a retry: the loop is entered again after an error ratio above 1
BPRetry == pc = "BP" /\ pc' = "BP" /\ last'.retried

\* C12: in adaptive mode every retry uses a trial step strictly smaller than
\* the previous one and not smaller than max(0.1 * previous step, minStep); a
\* trial step equal to minStep is accepted even with an error ratio above 1,
\* and currentStep and nextStep are then both minStep
C12_RetriesShrinkDownToMinStep ==
    /\ [][(BPAdaptive /\ BPRetry) =>
             /\ Gt(last'.r, 10)
             /\ Lt(loc'.step, loc.step)
             /\ ~Lt(loc'.step, Max(loc.step \div 10, bp.minStep))]_vars
    /\ []((BPReturned /\ BPAdaptive /\ Gt(last.r, 10)) =>
             /\ candidate.currentStep = bp.minStep
             /\ candidate.nextStep = bp.minStep)
    /\ []((pc = "BP" /\ BPAdaptive) => ~Lt(loc.step, bp.minStep))

\* a call that retried, starting above a positive minStep, and accepted
\* minStep with the error ratio still above 1
C12_Witness ==
    /\ BPReturned
    /\ BPAdaptive
    /\ last.retried
    /\ last.tries >= 3
    /\ Gt(last.r, 10)
    /\ bp.minStep > 0
    /\ last.pre.nextStep > bp.minStep
    /\ candidate.currentStep = bp.minStep

(***************************************************************************)
(* Interaction tags                                                        *)
(***************************************************************************)
\* the secondaries the call in progress (or the last call) has added
AddedSecondaries ==
    { candidate.secondaries[i] :
        i \in Len(last.pre.secondaries) + 1 .. Len(candidate.secondaries) }

\* C13: getInteractionTag returns the value last passed to setInteractionTag,
\* or the default "PD" or "EPP" when it was never called, and every secondary
\* a call adds carries the tag the module had at that call (last.tag, the
\* value of getInteractionTag at the entry of the call)
C13_TagIsLastSetAndCarried ==
    /\ pd.exists =>
          /\ getInteractionTag(pd) = (IF pd.tagArg = "unset" THEN "PD" ELSE pd.tagArg)
          /\ last.op \in {"PD.process", "performInteraction"} =>
                /\ \A sec \in AddedSecondaries : sec.tag = last.tag
                /\ pc \in {"PD", "done"} => last.tag = getInteractionTag(pd)
    /\ epp.exists =>
          /\ getInteractionTag(epp) = (IF epp.tagArg = "unset" THEN "EPP" ELSE epp.tagArg)
          /\ last.op = "EPP.process" =>
                /\ \A sec \in AddedSecondaries : sec.tag = last.tag
                /\ last.tag = getInteractionTag(epp)

\* ElectronPairProduction::process has added a pair after setInteractionTag("myTag")
C13_Witness ==
    /\ pc = "done"
    /\ last.op = "EPP.process"
    /\ epp.tagArg = "myTag"
    /\ Len(candidate.secondaries) >= 2
    /\ candidate.secondaries[1].tag = "myTag"

(***************************************************************************)
(* Channel selection of PhotoDisintegration::process                       *)
(***************************************************************************)
RECURSIVE CumulativeRatio(_, _, _)
\* the sum of the branching ratios of the channels 0 .. k at the bin l
CumulativeRatio(branches, l, k) ==
    IF k < 0 THEN 0
    ELSE branchingRatio(branches[k + 1], l) + CumulativeRatio(branches, l, k - 1)

\* the index the rule of C14 selects for the uniform draw u
FirstReaching(branches, l, u) ==
    IF \E k \in 0 .. Len(branches) - 1 : CumulativeRatio(branches, l, k) >= u
    THEN CHOOSE k \in 0 .. Len(branches) - 1 :
            /\ CumulativeRatio(branches, l, k) >= u
            /\ \A j \in 0 .. k - 1 : CumulativeRatio(branches, l, j) < u
    ELSE Len(branches) - 1

\* the last channel selection of the call: the branch list it read
SelectedFrom == pdBranch(pd.photonField, last.sel.idx)

\* C14: for a non-empty branch list and a uniform draw u in (0,1], process()
\* selects the first channel whose cumulative branching ratio at the nearest
\* bin is >= u, and the last channel when the ratios sum to less than u; for
\* the ratios 0.3, 0.7 and u = 0.5 the selected index is 1
C14_FirstChannelReachingDraw ==
    (last.op = "PD.process" /\ last.sel.u > 0 /\ Len(SelectedFrom) > 0) =>
        /\ last.sel.i - 1 = FirstReaching(SelectedFrom, last.sel.l, last.sel.u)
        /\ (/\ Len(SelectedFrom) >= 2
            /\ branchingRatio(SelectedFrom[1], last.sel.l) = 3
            /\ branchingRatio(SelectedFrom[2], last.sel.l) = 7
            /\ last.sel.u = 5) => last.sel.i - 1 = 1

\* a selection with the ratios 0.3, 0.7 and the draw 0.5
C14_Witness ==
    /\ last.op = "PD.process"
    /\ last.fired >= 1
    /\ Len(SelectedFrom) >= 2
    /\ branchingRatio(SelectedFrom[1], last.sel.l) = 3
    /\ branchingRatio(SelectedFrom[2], last.sel.l) = 7
    /\ last.sel.u = 5
    /\ last.sel.i = 2

\* a selection in which the ratios sum to less than the draw: the last channel
C14_WitnessShortSum ==
    /\ last.op = "PD.process"
    /\ last.fired >= 1
    /\ Len(SelectedFrom) >= 2
    /\ CumulativeRatio(SelectedFrom, last.sel.l, Len(SelectedFrom) - 1) < last.sel.u
    /\ last.sel.i = Len(SelectedFrom)

(***************************************************************************)
(* performInteraction: failure and decoding                                *)
(***************************************************************************)
\* the number of fragments a channel code names
FragmentCount(channel) ==
    digit(channel, 100000) + digit(channel, 10000) + digit(channel, 1000)
        + digit(channel, 100) + digit(channel, 10) + digit(channel, 1)

\* C15: when the residual nuclide is invalid performInteraction raises; the
\* fragments added before the failure stay attached after the secondaries the
\* candidate had, and the id and the energy of the primary are what they were
\* before the call
C15_FailureKeepsFragments ==
    last.outcome = "raised" =>
        /\ pc = "done"
        /\ ~NucleusIdValid(massNumber(last.preInt.id) - (TotalMass(candidate) - last.preIntTotals[1]),
                           chargeNumber(last.preInt.id)
                               - (TotalCharge(candidate) - last.preIntTotals[2]))
        /\ candidate.current = last.preInt
        /\ Len(candidate.secondaries)
              = Len(last.preIntSecondaries) + FragmentCount(last.channel)
        /\ SubSeq(candidate.secondaries, 1, Len(last.preIntSecondaries))
              = last.preIntSecondaries

\* a call that raised after adding a fragment
C15_Witness ==
    /\ last.outcome = "raised"
    /\ FragmentCount(last.channel) >= 1
    /\ Len(candidate.secondaries) > Len(last.preIntSecondaries)
    /\ isNucleus(last.preInt.id)

(***************************************************************************)
(* The frame of PropagationBP::process                                     *)
(***************************************************************************)
\* the candidate as it was at the call, with the four fields of the step
\* taken from the candidate as it is now
BPSteppedFrom(c) ==
    [c EXCEPT !.current.position = candidate.current.position,
              !.current.direction = candidate.current.direction,
              !.currentStep = candidate.currentStep,
              !.nextStep = candidate.nextStep]

\* C16 (as claimed): process() changes only the current position, the
\* current direction, currentStep and nextStep; the previous state among the
\* rest is as it was
C16_OnlyStepFieldsChange ==
    BPReturned => candidate = BPSteppedFrom(last.pre)

\* C16 (amended): process() changes only the current position, the current
\* direction, currentStep, nextStep and the previous state: no secondary is
\* added, id, energy, redshift and the created state are as they were, and
\* the previous state is the current state the candidate had at the call
C16_OnlyStepFieldsAndPreviousChange ==
    BPReturned => candidate = BPSteppedFrom([last.pre EXCEPT !.previous = last.pre.current])

\* a charged candidate has been moved and turned by an adaptive step, and its
\* previous state is no longer the one it had at the call
C16_Witness ==
    /\ BPReturned
    /\ getCharge(last.pre.current) # 0
    /\ last.tries >= 1
    /\ candidate.current.position # last.pre.current.position
    /\ candidate.current.direction # last.pre.current.direction
    /\ candidate.previous # last.pre.previous
    /\ candidate.secondaries # << >>

(***************************************************************************)
(* The tables of PhotoDisintegration during processing                     *)
(***************************************************************************)
\* C17 (as claimed): no step of process() or performInteraction adds an
\* entry to the photon emission table of the module, with photon emission on
\* or off; the rate and branching tables are functions of the photon field
\* alone
C17_TablesNeverModified ==
    [][pdPhotonKeys(pd') \subseteq pdPhotonKeys(pd)]_vars

(***************************************************************************)
(* The loop of PhotoDisintegration::process                                *)
(***************************************************************************)
\* process() returned from the branch "step < randDist" of its first pass
NoInteractionInStep == PDReturned /\ last.limited /\ last.fired = 0

\* C18: when the free path drawn in the first pass exceeds the current step
\* no interaction fires: id, energy, created and the secondaries are as
\* before, and nextStep is the smaller of its value before the call and
\* limit / rate
C18_NoInteractionLimitsNextStep ==
    NoInteractionInStep =>
        LET bound == Div(pd.limit, pdScaledRate(last.pre, pd))
        IN /\ candidate.current = last.pre.current
           /\ candidate.created = last.pre.created
           /\ candidate.secondaries = last.pre.secondaries
           /\ candidate.nextStep = IF Lt(bound, last.pre.nextStep) THEN bound
                                   ELSE last.pre.nextStep
           /\ candidate = [last.pre EXCEPT !.nextStep = candidate.nextStep]

\* a call that fired nothing on a candidate whose next step was already
\* below limit / rate
C18_Witness ==
    /\ NoInteractionInStep
    /\ pdScaledRate(last.pre, pd) > 0
    /\ Lt(last.pre.nextStep, Div(pd.limit, pdScaledRate(last.pre, pd)))
    /\ candidate.nextStep = last.pre.nextStep

\* a call that fired nothing and shortened the next step
C18_WitnessShortened ==
    /\ NoInteractionInStep
    /\ Lt(candidate.nextStep, last.pre.nextStep)

\* a <= b in doubles: false when either is NaN
Le(a, b) == a # NaN /\ b # NaN /\ a <= b

\* an interaction has fired in the process() call under way or just returned
FiredInProcess ==
    /\ last.op = "PD.process"
    /\ last.fired > 0
    /\ last.outcome \in {"running", "returned"}

\* a step of process() in which an interaction fires
FiringStep == last.op = "PD.process" /\ pc = "PD" /\ last'.fired = last.fired + 1

\* C19 (as claimed): an interaction fires only if its free path d is <= the
\* remaining step
C19_FiresOnlyWithinRemainingStep ==
    FiredInProcess => Le(last.d, last.remaining)

\* C19, continued: each fired interaction reduces the remaining step by d
C19_RemainingStepReduced ==
    (FiredInProcess /\ pc = "PD") => loc.step = Sub(last.remaining, last.d)

\* C19, continued: the guard and the rate are evaluated on the nuclide the
\* candidate is at the draw, the residual of the interaction before
C19_GuardAndRateReevaluated ==
    [][FiringStep =>
         /\ pdApplicable(candidate, pd)
         /\ last'.remaining = loc.step
         /\ \E L \in NegLogDraws : last'.d = Div(L, pdScaledRate(candidate, pd))]_vars

\* C19, continued: the free paths of the interactions fired in a call sum to
\* no more than the current step of the candidate
C19_FreePathsWithinCurrentStep ==
    FiredInProcess => Le(last.freeSum, last.pre.currentStep)

(***************************************************************************)
(* The decoding of the channel code                                        *)
(***************************************************************************)
\* the six kinds of fragment in the order of the digits of a channel code,
\* each as <<mass number, charge number>>
FragmentKinds == << <<1, 0>>, <<1, 1>>, <<2, 1>>, <<3, 1>>, <<3, 2>>, <<4, 2>> >>

\* the count of the kind-th fragment in a channel code
FragmentDigit(channel, kind) == digit(channel, Pow10(6 - kind))

RECURSIVE FragmentsBefore(_, _)
\* the number of fragments of the kinds 1 .. kind
FragmentsBefore(channel, kind) ==
    IF kind = 0 THEN 0
    ELSE FragmentsBefore(channel, kind - 1) + FragmentDigit(channel, kind)

\* the kind of the k-th fragment of a channel
FragmentKindAt(channel, k) ==
    CHOOSE kind \in 1 .. 6 :
        FragmentsBefore(channel, kind - 1) < k /\ k <= FragmentsBefore(channel, kind)

\* C20: performInteraction reads the six digits of the channel code as the
\* counts of n, p, d, t, He-3 and He-4, adds that many secondaries of each
\* kind in this order, each with energy (E / A) times its mass number, and
\* sets the primary to the nuclide (A + dA, Z + dZ) with energy
\* E (A + dA) / A, where dA and dZ are minus the nucleons and minus the
\* protons of the fragments
C20_ChannelDecoded ==
    InteractionReturned =>
        LET ch == last.channel
            E == last.preInt.energy
            A == massNumber(last.preInt.id)
            Z == chargeNumber(last.preInt.id)
            base == Len(last.preIntSecondaries)
            count == FragmentCount(ch)
            dA == 0 - (FragmentDigit(ch, 1) + FragmentDigit(ch, 2) + 2 * FragmentDigit(ch, 3)
                         + 3 * FragmentDigit(ch, 4) + 3 * FragmentDigit(ch, 5)
                         + 4 * FragmentDigit(ch, 6))
            dZ == 0 - (FragmentDigit(ch, 2) + FragmentDigit(ch, 3) + FragmentDigit(ch, 4)
                         + 2 * FragmentDigit(ch, 5) + 2 * FragmentDigit(ch, 6))
        IN /\ A >= 1
           /\ Len(candidate.secondaries) >= base + count
           /\ SubSeq(candidate.secondaries, 1, base) = last.preIntSecondaries
           /\ \A k \in 1 .. count :
                LET kind == FragmentKinds[FragmentKindAt(ch, k)]
                    s == candidate.secondaries[base + k]
                IN /\ s.id = nucleusId(kind[1], kind[2])
                   /\ s.energy = (E \div A) * kind[1]
           /\ \A k \in base + count + 1 .. Len(candidate.secondaries) :
                candidate.secondaries[k].id = Photon
           /\ candidate.current.id = nucleusId(A + dA, Z + dZ)
           /\ candidate.current.energy = (E * (A + dA)) \div A

\* He-4 has lost a neutron and a proton in one interaction and is a deuteron
C20_Witness ==
    /\ InteractionReturned
    /\ last.channel = 110000
    /\ last.preInt.id = He4
    /\ candidate.current.id = H2
    /\ Len(candidate.secondaries) >= Len(last.preIntSecondaries) + 2

(***************************************************************************)
(* The secondaries of ElectronPairProduction::process                      *)
(***************************************************************************)
\* the secondaries added to the candidate since the call began
AddedByEPP == SubSeq(candidate.secondaries, Len(last.pre.secondaries) + 1,
                     Len(candidate.secondaries))

\* C21: with secondary emission on, process() adds secondaries only as pairs
\* of an electron (11) and a positron (-11) of equal energy at one position;
\* a pair dearer than the remaining budget is accepted at most once in a call
\* and is the last pair of the call, so the energy of the secondaries added is
\* less than the initial budget plus the energy of the last pair; with
\* secondary emission off no secondary is added
C21_PairsWithinBudget ==
    last.op = "EPP.process" =>
        LET added == AddedByEPP
            n == Len(added) \div 2
        IN /\ Len(added) = 2 * last.fired
           /\ SubSeq(candidate.secondaries, 1, Len(last.pre.secondaries))
                = last.pre.secondaries
           /\ \A k \in 1 .. n :
                /\ added[2 * k - 1].id = 11
                /\ added[2 * k].id = 0 - 11
                /\ added[2 * k - 1].energy = added[2 * k].energy
                /\ added[2 * k - 1].pos = added[2 * k].pos
           /\ last.over <= 1
           /\ (last.over = 1 /\ pc = "EPP") => ~(loc.dE > 0)
           /\ n >= 1 => SumEnergy(added) < last.budget + 2 * added[2 * n].energy
           /\ ~epp.haveElectrons => added = << >>

\* a call that created a pair within the budget and then accepted one beyond it
C21_Witness ==
    /\ EPPReturned
    /\ epp.haveElectrons
    /\ last.fired >= 2
    /\ last.over = 1
    /\ SumEnergy(AddedByEPP) > last.budget

(***************************************************************************)
(* The steps of PropagationBP::process                                     *)
(***************************************************************************)
\* process() has accepted a trial step whose error ratio is <= 1
BPAcceptedWithinTolerance ==
    BPReturned /\ ~bpFixedMode(bp) /\ last.tries >= 1 /\ Le(last.r, 10)

\* C22 (as claimed): when a trial step is accepted with an error ratio <= 1
\* and is not maxStep, nextStep is not smaller than the accepted step and not
\* larger than min(5 * accepted step, maxStep); when the accepted step is
\* maxStep, nextStep is maxStep
C22_NextStepGrows ==
    BPAcceptedWithinTolerance =>
        IF candidate.currentStep # bp.maxStep
        THEN /\ Le(candidate.currentStep, candidate.nextStep)
             /\ Le(candidate.nextStep, 5 * candidate.currentStep)
             /\ Le(candidate.nextStep, bp.maxStep)
        ELSE candidate.nextStep = bp.maxStep

\* C22 (amended): the same, with the next step not smaller than 0.95 times
\* the accepted step (to the rounding of the product) in place of not
\* smaller than the accepted step
C22_NextStepWithinFactors ==
    BPAcceptedWithinTolerance =>
        IF candidate.currentStep # bp.maxStep
        THEN /\ Le((95 * candidate.currentStep) \div 100, candidate.nextStep)
             /\ Le(candidate.nextStep, 5 * candidate.currentStep)
             /\ Le(candidate.nextStep, bp.maxStep)
             /\ last.r <= 5 => Le(candidate.currentStep, candidate.nextStep)
        ELSE candidate.nextStep = bp.maxStep

\* a step below maxStep accepted with the error ratio 1, after which the next
\* step is smaller than the accepted one
C22_Witness ==
    /\ BPAcceptedWithinTolerance
    /\ last.r = 10
    /\ candidate.currentStep = 60
    /\ candidate.nextStep = 57

\* a step accepted with no error at all, after which the next step is five
\* times the accepted one
C22_WitnessFiveFold ==
    /\ BPAcceptedWithinTolerance
    /\ last.r = 0
    /\ candidate.currentStep = 5
    /\ candidate.nextStep = 25

\* C23: after every process() call, of a charged or a neutral particle, in
\* fixed or adaptive mode, after any number of retries, candidate.previous is
\* candidate.current as it was immediately before the call
C23_PreviousIsPreCallCurrent ==
    (last.op = "BP.process" /\ pc \in {"BP", "done"}) =>
        candidate.previous = last.pre.current

\* an adaptive call that retried and moved the candidate
C23_Witness ==
    /\ BPReturned
    /\ last.retried
    /\ getCharge(last.pre.current) # 0
    /\ candidate.previous = last.pre.current
    /\ candidate.previous # candidate.current
    /\ last.pre.previous # last.pre.current

\* a call on a neutral particle that moved the candidate
C23_WitnessNeutral ==
    /\ BPReturned
    /\ getCharge(last.pre.current) = 0
    /\ candidate.previous = last.pre.current
    /\ candidate.previous # candidate.current

(***************************************************************************)
(* The radial dependence in ElectronPairProduction::process                *)
(***************************************************************************)
\* the candidate of the call as it would be at the distance R from the centre
\* of the field
AtRadius(c, R) == [c EXCEPT !.R = R]

\* what process() without secondaries makes of a candidate
eppProcessed(eppm, c) == eppFinish(eppm, c, eppLossLength(eppm, c))

\* C24 (as claimed): in a photon field with a scale radius the loss length of
\* process() is divided by a factor that depends on the position, so that
\* the same candidate at another distance gets another loss length and loses
\* another amount of energy
C24_LossDependsOnPosition ==
    (/\ EPPReturned
     /\ hasScaleRadius(epp.photonField)
     /\ eppApplicable(epp, last.pre)
     /\ eppLocalStep(last.pre) > 0) =>
        \A R \in EppRadii \ {last.pre.R} :
            /\ eppLossLength(epp, AtRadius(last.pre, R)) # eppLossLength(epp, last.pre)
            /\ eppProcessed(epp, AtRadius(last.pre, R)).current.energy
                  # candidate.current.energy

(***************************************************************************)
(* The tables of ElectronPairProduction                                    *)
(***************************************************************************)
\* C25: after any sequence of calls of the constructor, setPhotonField and
\* setHaveElectrons the loss rate table is the one of the current photon
\* field, and while haveElectrons is true the spectrum table is the one of
\* the current photon field; every draw of process() is made from it
C25_TablesOfCurrentField ==
    epp.exists =>
        /\ epp.rateField = epp.photonField
        /\ epp.haveElectrons => epp.spectrumField = spectrumFile(epp.photonField)
        /\ (last.op = "EPP.process" /\ epp.haveElectrons /\ last.budget > 0 /\ pc = "done")
              => last.spectrum = spectrumFile(epp.photonField)

\* a module built without secondaries, given another photon field and then
\* switched to secondaries, has drawn a pair
C25_Witness ==
    /\ EPPReturned
    /\ epp.haveElectrons
    /\ epp.photonField = "IRB_Stecker05"
    /\ last.fired >= 1
    /\ last.spectrum = "IRB"

\* C26 (as claimed): process() terminates for every configuration the
\* setters accept, minStep = 0 included, and for every sequence of error
\* estimates: the retry loop ends by accepting a step within the tolerance or
\* by reaching minStep
C26_ProcessTerminates == <>(pc \in {"done", "crashed"})

(***************************************************************************)
(* The index of the selected channel                                       *)
(***************************************************************************)
\* C27 (as claimed): the index i - 1 that process() reads the selected
\* channel at is an index of the branch list of the nuclide, for every draw
\* in [0,1], 0 included, and every nuclide with a rate entry, one with an
\* empty branch list included
C27_ChannelIndexValid ==
    last.sel.drawn =>
        /\ last.sel.i - 1 >= 0
        /\ last.sel.i - 1 < Len(SelectedFrom)

(***************************************************************************)
(* The sign of the Lorentz factor after ElectronPairProduction::process    *)
(***************************************************************************)
\* the argument of the setLorentzFactor call of process() on candidate c
eppWrittenLorentzFactor(eppm, c) ==
    eppNewLorentzFactor(getLorentzFactor(c.current), eppLocalStep(c), eppLossLength(eppm, c))

BPNeutralCall == getCharge(last.pre.current) = 0

\* C29 (as claimed): after every process() call minStep <= currentStep <=
\* maxStep; in adaptive mode currentStep <= max(minStep, nextStep requested
\* before the call); for a neutral particle currentStep is clip(requested
\* nextStep, minStep, maxStep), the position has advanced by direction times
\* currentStep, and nextStep is maxStep
C29_StepWithinBounds ==
    BPReturned =>
        /\ Le(bp.minStep, candidate.currentStep)
        /\ Le(candidate.currentStep, bp.maxStep)
        /\ (~BPNeutralCall /\ ~bpFixedMode(bp)) =>
              Le(candidate.currentStep, Max(bp.minStep, last.pre.nextStep))
        /\ BPNeutralCall =>
              /\ candidate.currentStep = clip(last.pre.nextStep, bp.minStep, bp.maxStep)
              /\ candidate.current.position =
                    axpy(last.pre.current.position, last.pre.current.direction,
                         candidate.currentStep)
              /\ candidate.nextStep = bp.maxStep

\* the same for the modules whose step bounds are numbers
C29_StepWithinNumericBounds ==
    (bp.minStep # NaN /\ bp.maxStep # NaN) => C29_StepWithinBounds

\* a call of a module with a step bound that is not a number has returned
C29_ReturnedWithoutBounds ==
    BPReturned /\ (bp.minStep = NaN \/ bp.maxStep = NaN)

(***************************************************************************)
(* The advection field in PropagationBP::dY                                *)
(***************************************************************************)
\* C30 (as claimed): process() samples the advection field exactly when an
\* advection field is configured, whether or not a magnetic field is: no call
\* ends in the dereference of an unset advection field, and every call that
\* evaluates dY has read the advection field if and only if one is set
C30_AdvectionSampledWhenConfigured ==
    /\ ~(pc = "crashed" /\ last.op = "BP.process")
    /\ (BPReturned /\ last.dYs > 0) => (last.advEvals > 0 <=> bp.advField)

\* the half of C30 that fails without a crash: a configured advection field
\* that a returned call has not read
C30_ConfiguredFieldIgnored ==
    BPReturned /\ last.dYs > 0 /\ bp.advField /\ last.advEvals = 0

====
